---- MODULE Spec2Model ----
(***************************************************************************)
(* Cafe management system (cafemanage/cafe.py): the persisted documents    *)
(* (menu, orders, tables, settings), the session cart, and one action per  *)
(* form handler of the Streamlit pages.  Every script run is handled to    *)
(* completion before the next one starts, so each handler is one atomic    *)
(* action; a handler that ends in st.rerun() includes the page's code that *)
(* the rerun executes again.                                               *)
(*                                                                         *)
(* Money is held in hundredths (cents), rates in thousandths (per mille).  *)
(***************************************************************************)
EXTENDS Integers, Sequences, FiniteSets, TLC

VARIABLES menu, orders, tables, settings, cart, session, issued, last

vars == <<menu, orders, tables, settings, cart, session, issued, last>>

(***************************************************************************)
(* Bounds of the model.                                                    *)
(***************************************************************************)
MaxItems == 3
MaxAdds == 2
MaxInv == 1
MaxTables == 2
MaxQty == 2
MaxCartLines == 2
MaxOrders == 2
MaxIdNum == 6
MaxInputLen == 2
\* initialize_data_files creates 10 tables; the model starts with fewer
InitTableCount == 1
InitInventory == 3
MaxReportOrders == 2

(***************************************************************************)
(* Generic helpers.                                                        *)
(***************************************************************************)
Range(s) == {s[i] : i \in DOMAIN s}

RECURSIVE SeqsUpTo(_, _)
SeqsUpTo(S, n) ==
    IF n = 0 THEN {<<>>}
    ELSE LET shorter == SeqsUpTo(S, n - 1)
         IN  shorter \cup {Append(s, c) : s \in shorter, c \in S}

RECURSIVE SeqSum(_)
SeqSum(s) == IF s = <<>> THEN 0 ELSE Head(s) + SeqSum(Tail(s))

(***************************************************************************)
(* Menu item ids: prefix followed by the zero-padded decimal sequence      *)
(* number, f"{prefix}{max_id + 1:03d}", read back with                     *)
(* int(itm["id"].replace(prefix, "")).                                     *)
(***************************************************************************)
ItemTypes == {"beverages", "food"}

Prefix(item_type) == IF item_type = "beverages" THEN "BEV" ELSE "FOOD"

RECURSIVE Digits(_)
Digits(n) == IF n < 10 THEN <<n>> ELSE Append(Digits(n \div 10), n % 10)

RECURSIVE PadLeft(_, _)
PadLeft(ds, width) == IF Len(ds) >= width THEN ds ELSE PadLeft(<<0>> \o ds, width)

FormatId(prefix, n) == [prefix |-> prefix, digits |-> PadLeft(Digits(n), 3)]

RECURSIVE ParseInt(_)
ParseInt(ds) ==
    IF ds = <<>> THEN 0 ELSE 10 * ParseInt(SubSeq(ds, 1, Len(ds) - 1)) + ds[Len(ds)]

\* int(itm["id"].replace(prefix, "")): the digits left once the prefix is removed
IdNum(id, prefix) == IF id.prefix = prefix THEN ParseInt(id.digits) ELSE -1

(***************************************************************************)
(* Input sets of the menu forms.                                           *)
(***************************************************************************)
Names == {"", "Mocha"}
Categories == {"", "Coffee"}
Prices == {450}
Inventories == 0..MaxInv

MkItem(id, name, price, category, available, description, inventory, tag) ==
    [id |-> id, name |-> name, price |-> price, category |-> category,
     available |-> available, description |-> description,
     inventory |-> inventory, type_tag |-> tag]

\* Two items of initialize_data_files' default menu (BEV002, FOOD004), as the
\* menu document holds them once the Edit Items tab has saved it, with the
\* inventories (40 and 30 in the file) scaled down to InitInventory.
DefaultMenu ==
    [beverages |-> << MkItem(FormatId("BEV", 2), "Cappuccino", 350, "Coffee", TRUE,
                             "Coffee with steamed milk foam", InitInventory, "beverages") >>,
     food      |-> << MkItem(FormatId("FOOD", 4), "Club Sandwich", 900, "Sandwich", TRUE,
                             "Triple layer sandwich with turkey and bacon", InitInventory, "food") >>]

(***************************************************************************)
(* menu_management_page                                                    *)
(***************************************************************************)
RECURSIVE MaxIdFrom(_, _, _)
MaxIdFrom(existing, prefix, max_id) ==
    IF existing = <<>> THEN max_id
    ELSE LET num == IdNum(Head(existing).id, prefix)
         IN  MaxIdFrom(Tail(existing), prefix, IF num > max_id THEN num ELSE max_id)

NextIdNum(m, item_type) == MaxIdFrom(m[item_type], Prefix(item_type), 0) + 1

\* The Edit Items tab marks every item of the loaded menu with its list's name
\* (itm["_type"] = t) before any form is handled.
TagAll(m) ==
    [t \in ItemTypes |-> [i \in DOMAIN m[t] |-> [m[t][i] EXCEPT !.type_tag = t]]]

AddItem(item_type, item_name, item_price, item_category, item_description, item_inventory, item_available) ==
    /\ Len(menu["beverages"]) + Len(menu["food"]) < MaxItems
    /\ Len(issued["beverages"]) + Len(issued["food"]) < MaxAdds
    /\ IF item_name # "" /\ item_price # 0 /\ item_category # ""
       THEN LET new_id == FormatId(Prefix(item_type), NextIdNum(menu, item_type))
                new_item == MkItem(new_id, item_name, item_price, item_category,
                                   item_available, item_description, item_inventory, "")
            IN  /\ menu' = [menu EXCEPT ![item_type] = Append(@, new_item)]
                /\ issued' = [issued EXCEPT ![item_type] = Append(@, ParseInt(new_id.digits))]
                /\ last' = [op |-> "add_item", ok |-> TRUE, kind |-> item_type,
                            id |-> new_id]
       ELSE /\ UNCHANGED <<menu, issued, session>>
            /\ last' = [op |-> "add_item", ok |-> FALSE, kind |-> item_type,
                        id |-> FormatId(Prefix(item_type), 0)]
    /\ UNCHANGED <<orders, tables, settings, cart, session>>

FirstIndex(s, id) ==
    LET hits == {i \in DOMAIN s : s[i].id = id}
    IN  IF hits = {} THEN 0 ELSE CHOOSE i \in hits : \A j \in hits : i <= j

UpdateFields(itm, f) ==
    [itm EXCEPT !.name = f.name, !.price = f.price, !.category = f.category,
                !.description = f.description, !.inventory = f.inventory,
                !.available = f.available]

\* "Update Item": the first item of the list with the selected id is updated,
\* the menu is saved and the script reruns.
UpdateItem(t, id, f) ==
    /\ FirstIndex(menu[t], id) # 0
    /\ LET tagged == TagAll(menu)
           i == FirstIndex(tagged[t], id)
       IN  menu' = [tagged EXCEPT ![t][i] = UpdateFields(@, f)]
    /\ last' = [op |-> "update_item", ok |-> TRUE, kind |-> t, id |-> id]
    /\ UNCHANGED <<orders, tables, settings, cart, issued, session>>

\* "Delete Item": menu_data[t] = [itm for itm in menu_data[t] if itm["id"] != id],
\* then the (tagged) menu is saved.
DeleteFromMenu(m, t, id) ==
    LET Keep(itm) == itm.id # id
    IN  [m EXCEPT ![t] = SelectSeq(@, Keep)]

DeleteItem(t, id) ==
    /\ menu' = DeleteFromMenu(TagAll(menu), t, id)
    /\ last' = [op |-> "delete_item", ok |-> FirstIndex(menu[t], id) # 0,
                kind |-> t, id |-> id]
    /\ UNCHANGED <<orders, tables, settings, cart, issued, session>>

(***************************************************************************)
(* Table numbers are strings; they are modelled as sequences of characters *)
(* so that str(i) and str.strip() are computed, not assumed.               *)
(***************************************************************************)
DigitChars == <<"0", "1", "2", "3", "4", "5", "6", "7", "8", "9">>

\* str(i)
Str(n) == LET ds == Digits(n) IN [k \in 1..Len(ds) |-> DigitChars[ds[k] + 1]]

RECURSIVE LStrip(_)
LStrip(s) == IF s # <<>> /\ Head(s) = " " THEN LStrip(Tail(s)) ELSE s

RECURSIVE RStrip(_)
RStrip(s) ==
    IF s # <<>> /\ s[Len(s)] = " " THEN RStrip(SubSeq(s, 1, Len(s) - 1)) ELSE s

\* new_table_number.strip()
Strip(s) == RStrip(LStrip(s))

TableStatuses == <<"Available", "Occupied", "Reserved">>

OrderStatuses == <<"Pending", "Preparing", "Ready", "Completed", "Cancelled">>

ActiveStatuses == {"Pending", "Preparing", "Ready"}

\* tables = [{"table_number": str(i), "status": "Available"} for i in range(1, 11)],
\* scaled to InitTableCount tables
DefaultTables ==
    [i \in 1..InitTableCount |-> [table_number |-> Str(i), status |-> "Available"]]

(***************************************************************************)
(* table_management_page                                                   *)
(***************************************************************************)
\* A slip: an order that is Ready no longer counts as active.
ActiveTablesNoReady(orders_data) ==
    {orders_data[i].table_number : i \in {j \in DOMAIN orders_data :
        /\ orders_data[j].status \in {"Pending", "Preparing"}
        /\ orders_data[j].table_number # <<>>}}

\* Step 1: the table numbers of the orders in status Pending, Preparing or Ready
ActiveTables(orders_data) ==
    {orders_data[i].table_number : i \in {j \in DOMAIN orders_data :
        /\ orders_data[j].status \in ActiveStatuses
        /\ orders_data[j].table_number # <<>>}}

\* A slip: an active order releases a reservation first, and only a later
\* sync marks the table Occupied.
SyncStatusTwoStep(status, active) ==
    IF active THEN (IF status = "Reserved" THEN "Available" ELSE "Occupied")
    ELSE IF status # "Reserved" THEN "Available" ELSE status

\* A slip: the else branch without the Reserved exception.
SyncStatusNoSticky(status, active) == IF active THEN "Occupied" ELSE "Available"

SyncStatus(status, active) ==
    IF active THEN "Occupied"
    ELSE IF status # "Reserved" THEN "Available" ELSE status

Reconcile(tables_data, orders_data) ==
    LET active_tables == ActiveTables(orders_data)
    IN  [i \in DOMAIN tables_data |->
            [tables_data[i] EXCEPT
                !.status = SyncStatus(@, tables_data[i].table_number \in active_tables)]]

RemoveAt(s, idx) == SubSeq(s, 1, idx - 1) \o SubSeq(s, idx + 1, Len(s))

\* Opening the page: the sync step runs and saves; no button is pressed.
TablePageLoad ==
    /\ tables' = Reconcile(tables, orders)
    /\ last' = [op |-> "reconcile",
                runs |-> IF last.op = "reconcile" THEN 2 ELSE 1]
    /\ UNCHANGED <<menu, orders, settings, cart, issued, session>>

\* A status selectbox was changed: sync, set, save, st.rerun() (the sync again).
SetTableStatus(idx, new_status) ==
    /\ idx \in DOMAIN tables
    /\ LET tables_data == Reconcile(tables, orders)
       IN  /\ new_status # tables_data[idx].status
           /\ tables' = Reconcile([tables_data EXCEPT ![idx].status = new_status], orders)
           /\ last' = [op |-> "set_status", idx |-> idx, status |-> new_status,
                       was |-> tables_data[idx].status]
    /\ UNCHANGED <<menu, orders, settings, cart, issued, session>>

\* A slip: deleting a table cancels the orders that name it.
DeleteTableCascade(idx) ==
    /\ idx \in DOMAIN tables
    /\ orders' = [j \in DOMAIN orders |->
                     IF orders[j].table_number = tables[idx].table_number
                     THEN [orders[j] EXCEPT !.status = "Cancelled"]
                     ELSE orders[j]]
    /\ tables' = Reconcile(RemoveAt(Reconcile(tables, orders), idx), orders')
    /\ last' = [op |-> "delete_table", number |-> tables[idx].table_number]
    /\ UNCHANGED <<menu, settings, cart, issued, session>>

\* "Delete": del tables_data[idx], save, st.rerun()
DeleteTable(idx) ==
    /\ idx \in DOMAIN tables
    /\ tables' = Reconcile(RemoveAt(Reconcile(tables, orders), idx), orders)
    /\ last' = [op |-> "delete_table", number |-> tables[idx].table_number]
    /\ UNCHANGED <<menu, orders, settings, cart, issued, session>>

TableExists(tables_data, number) ==
    \E i \in DOMAIN tables_data : tables_data[i].table_number = number

\* "Add Table"
AddTable(new_table_number) ==
    /\ Len(tables) < MaxTables
    /\ LET tables_data == Reconcile(tables, orders)
       IN  IF TableExists(tables_data, new_table_number)
           THEN /\ tables' = tables_data
                /\ last' = [op |-> "add_table", ok |-> FALSE, input |-> new_table_number,
                            error |-> "Table number already exists."]
           ELSE IF Strip(new_table_number) = <<>>
           THEN /\ tables' = tables_data
                /\ last' = [op |-> "add_table", ok |-> FALSE, input |-> new_table_number,
                            error |-> "Table number cannot be empty."]
           ELSE /\ tables' = Reconcile(Append(tables_data,
                                 [table_number |-> Strip(new_table_number),
                                  status |-> "Available"]), orders)
                /\ last' = [op |-> "add_table", ok |-> TRUE, input |-> new_table_number,
                            error |-> ""]
    /\ UNCHANGED <<menu, orders, settings, cart, issued, session>>

(***************************************************************************)
(* Orders.  The order form of order_management_page (cart, place_order) is *)
(* not part of cafe.py as it stands: only its tail (the bill block,        *)
(* lines 387-411) is left.  CartAdd, CartRemove and PlaceOrder follow the  *)
(* specification's section 4.4.  An order's date, time and timestamp are   *)
(* not modelled; orders are appended in creation order.                    *)
(***************************************************************************)
FormatOrderId(n) == [prefix |-> "ORD", digits |-> PadLeft(Digits(n), 5)]

CustomerNames == {"", "Ann"}
Quantities == 1..MaxQty
Discounts == {-100, 0, 100, 5000}
PaymentStatuses == {"Unpaid"}
OrderTableNumbers == {<<>>, Str(1), Str(2)}

MkLine(item, quantity) ==
    [id |-> item.id, name |-> item.name, price |-> item.price,
     quantity |-> quantity, subtotal |-> item.price * quantity]

AllItems(m) == m["beverages"] \o m["food"]

HasItem(m, id) == \E i \in DOMAIN AllItems(m) : AllItems(m)[i].id = id

\* the current inventory of the (first) item with this id
InventoryOf(m, id) == AllItems(m)[FirstIndex(AllItems(m), id)].inventory

\* cart_add: the advisory check against the catalog's inventory at add time
CartAdd(t, idx, quantity) ==
    /\ idx \in DOMAIN menu[t]
    /\ menu[t][idx].available
    /\ Len(cart) < MaxCartLines
    /\ IF quantity > menu[t][idx].inventory
       THEN /\ UNCHANGED cart
            /\ last' = [op |-> "cart_add", ok |-> FALSE]
       ELSE /\ cart' = Append(cart, MkLine(menu[t][idx], quantity))
            /\ last' = [op |-> "cart_add", ok |-> TRUE]
    /\ UNCHANGED <<menu, orders, tables, settings, issued, session>>

CartRemove(index) ==
    /\ index \in DOMAIN cart
    /\ cart' = RemoveAt(cart, index)
    /\ last' = [op |-> "cart_remove", ok |-> TRUE]
    /\ UNCHANGED <<menu, orders, tables, settings, issued, session>>

\* round(num / den, 2 places of the unit): nearest, ties to even, as Python's round
RoundDiv(num, den) ==
    LET q == num \div den
        r == num % den
    IN  IF 2 * r < den THEN q
        ELSE IF 2 * r > den THEN q + 1
        ELSE IF q % 2 = 0 THEN q ELSE q + 1

CartSubtotal(lines) == SeqSum([i \in DOMAIN lines |-> lines[i].subtotal])

\* step 2: the first cart line whose quantity exceeds the item's inventory, or 0
FirstShortLine(m, lines) ==
    LET short == {i \in DOMAIN lines : lines[i].quantity > InventoryOf(m, lines[i].id)}
    IN  IF short = {} THEN 0 ELSE CHOOSE i \in short : \A j \in short : i <= j

DecrementItem(m, id, quantity) ==
    [t \in ItemTypes |->
        [i \in DOMAIN m[t] |->
            IF m[t][i].id = id /\ i = FirstIndex(m[t], id)
            THEN [m[t][i] EXCEPT !.inventory = @ - quantity]
            ELSE m[t][i]]]

\* step 3: decrement the inventory for every cart line by its quantity
RECURSIVE DecrementAll(_, _)
DecrementAll(m, lines) ==
    IF lines = <<>> THEN m
    ELSE DecrementAll(DecrementItem(m, Head(lines).id, Head(lines).quantity), Tail(lines))

\* step 4: the amounts of an order
Taxable(lines, discount) == CartSubtotal(lines) - discount

\* A slip: the tax is taken on the subtotal, before the discount.
TaxOnSubtotal(lines, discount, tax_rate) == RoundDiv(tax_rate * CartSubtotal(lines), 1000)

TaxOf(lines, discount, tax_rate) == RoundDiv(tax_rate * Taxable(lines, discount), 1000)

ServiceOf(lines, discount, service_rate) ==
    RoundDiv(service_rate * Taxable(lines, discount), 1000)

MkOrder(n, customer_name, table_number, lines, discount, tax_rate, service_rate, payment_status) ==
    [id |-> FormatOrderId(n), customer_name |-> customer_name,
     table_number |-> table_number, items |-> lines,
     subtotal |-> CartSubtotal(lines), discount |-> discount,
     tax |-> TaxOf(lines, discount, tax_rate),
     service_charge |-> ServiceOf(lines, discount, service_rate),
     total |-> Taxable(lines, discount) + TaxOf(lines, discount, tax_rate)
                 + ServiceOf(lines, discount, service_rate),
     status |-> "Pending", payment_status |-> payment_status]

PlaceOrderError(customer_name, discount) ==
    IF customer_name = "" THEN "name required"
    ELSE IF cart = <<>> THEN "cart empty"
    ELSE IF discount < 0 \/ discount > CartSubtotal(cart) THEN "invalid discount"
    ELSE IF FirstShortLine(menu, cart) # 0 THEN "InsufficientInventoryError"
    ELSE ""

\* A slip: the lines are checked and decremented in one loop, so the lines
\* before the first short one are already decremented when the order is refused.
PlaceOrderDecrementInLoop(customer_name, table_number, discount, payment_status) ==
    /\ Len(orders) < MaxOrders
    /\ \A i \in DOMAIN cart : HasItem(menu, cart[i].id)
    /\ LET error == PlaceOrderError(customer_name, discount)
       IN  IF error = "InsufficientInventoryError"
           THEN /\ menu' = DecrementAll(menu, SubSeq(cart, 1, FirstShortLine(menu, cart) - 1))
                /\ UNCHANGED <<orders, cart>>
                /\ last' = [op |-> "place_order", ok |-> FALSE, error |-> error,
                            customer_name |-> customer_name, discount |-> discount]
           ELSE IF error # ""
           THEN /\ UNCHANGED <<menu, orders, cart>>
                /\ last' = [op |-> "place_order", ok |-> FALSE, error |-> error,
                            customer_name |-> customer_name, discount |-> discount]
           ELSE /\ menu' = DecrementAll(menu, cart)
                /\ orders' = Append(orders,
                       MkOrder(Len(orders) + 1, customer_name, table_number, cart, discount,
                               settings.tax_rate, settings.service_charge, payment_status))
                /\ cart' = <<>>
                /\ last' = [op |-> "place_order", ok |-> TRUE, error |-> "",
                            customer_name |-> customer_name, discount |-> discount]
    /\ UNCHANGED <<tables, settings, issued, session>>

\* place_order: every line is validated before any decrement is committed
PlaceOrder(customer_name, table_number, discount, payment_status) ==
    /\ Len(orders) < MaxOrders
    /\ \A i \in DOMAIN cart : HasItem(menu, cart[i].id)
    /\ LET error == PlaceOrderError(customer_name, discount)
       IN  IF error # ""
           THEN /\ UNCHANGED <<menu, orders, cart>>
                /\ last' = [op |-> "place_order", ok |-> FALSE, error |-> error,
                            customer_name |-> customer_name, discount |-> discount]
           ELSE /\ menu' = DecrementAll(menu, cart)
                /\ orders' = Append(orders,
                       MkOrder(Len(orders) + 1, customer_name, table_number, cart, discount,
                               settings.tax_rate, settings.service_charge, payment_status))
                /\ cart' = <<>>
                /\ last' = [op |-> "place_order", ok |-> TRUE, error |-> "",
                            customer_name |-> customer_name, discount |-> discount]
    /\ UNCHANGED <<tables, settings, issued, session>>

(***************************************************************************)
(* order_management_page: the two status handlers.  load_orders and        *)
(* save_orders are called but not defined in cafe.py; they read and write  *)
(* the orders document as load_json / save_json do for ORDERS_FILE.        *)
(***************************************************************************)
LoadOrders == orders

SaveOrders(data) == data

FilterByStatus(data, status_filter) ==
    LET Keep(o) == o.status = status_filter
    IN  IF status_filter = "All" THEN data ELSE SelectSeq(data, Keep)

LastIndex(s, id) ==
    LET hits == {i \in DOMAIN s : s[i].id = id}
    IN  IF hits = {} THEN 0 ELSE CHOOSE i \in hits : \A j \in hits : i >= j

\* The order list (lines 342-374): the selectbox of the idx-th listed order is
\* changed; the listed (filtered) orders are what save_orders is given.  One
\* widget key per order id: only the first listed order of an id has a selectbox.
UpdateStatusFiltered(status_filter, idx, new_status) ==
    /\ LET listed == FilterByStatus(LoadOrders, status_filter)
       IN  /\ idx \in DOMAIN listed
           /\ idx = FirstIndex(listed, listed[idx].id)
           /\ new_status # listed[idx].status
           /\ orders' = SaveOrders([listed EXCEPT ![idx].status = new_status])
           /\ last' = [op |-> "update_status", id |-> listed[idx].id,
                       was |-> listed[idx].status, status |-> new_status]
    /\ UNCHANGED <<menu, tables, settings, cart, issued, session>>

SetFirstStatus(orders_data, id, new_status) ==
    [orders_data EXCEPT ![FirstIndex(orders_data, id)].status = new_status]

\* A slip: a forward-only order of the statuses, nothing leaves Completed or
\* Cancelled.
UpdateStatusForwardOnly(status_filter, idx, new_status) ==
    /\ LET filtered_orders == FilterByStatus(orders, status_filter)
           Rank(st) == CHOOSE k \in DOMAIN OrderStatuses : OrderStatuses[k] = st
       IN  /\ idx \in DOMAIN filtered_orders
           /\ idx = LastIndex(filtered_orders, filtered_orders[idx].id)
           /\ LET was == orders[FirstIndex(orders, filtered_orders[idx].id)].status
              IN  /\ orders' = IF was \in {"Completed", "Cancelled"} \/ Rank(new_status) < Rank(was)
                               THEN orders
                               ELSE SetFirstStatus(orders, filtered_orders[idx].id, new_status)
                  /\ last' = [op |-> "update_status", id |-> filtered_orders[idx].id,
                              was |-> was, status |-> new_status]
    /\ UNCHANGED <<menu, tables, settings, cart, issued, session>>

\* Order History (lines 413-453): "Update Status" of a listed order writes the
\* selected status to the first order of orders_data with that id, saves the whole
\* list and reruns.  The list is shown newest first, one widget key per order id.
UpdateStatusHistory(status_filter, idx, new_status) ==
    /\ LET filtered_orders == FilterByStatus(orders, status_filter)
       IN  /\ idx \in DOMAIN filtered_orders
           /\ idx = LastIndex(filtered_orders, filtered_orders[idx].id)
           /\ orders' = SetFirstStatus(orders, filtered_orders[idx].id, new_status)
           /\ last' = [op |-> "update_status", id |-> filtered_orders[idx].id,
                       was |-> orders[FirstIndex(orders, filtered_orders[idx].id)].status,
                       status |-> new_status]
    /\ UNCHANGED <<menu, tables, settings, cart, issued, session>>

(***************************************************************************)
(* sales_analytics_page.  The dates of the orders are not modelled: every  *)
(* order lies in the selected date range, so `filtered` is the order list. *)
(***************************************************************************)
\* item_sales.setdefault(name, 0); item_sales[name] += quantity.  A dict keeps
\* its keys in the order of their first insertion: item_sales is the sequence
\* of its (name, qty) items.
AddSale(item_sales, name, quantity) ==
    LET hits == {k \in DOMAIN item_sales : item_sales[k].name = name}
    IN  IF hits = {} THEN Append(item_sales, [name |-> name, qty |-> quantity])
        ELSE [k \in DOMAIN item_sales |->
                 IF k \in hits THEN [item_sales[k] EXCEPT !.qty = @ + quantity]
                 ELSE item_sales[k]]

\* for item in o['items']
RECURSIVE SalesOfLines(_, _)
SalesOfLines(item_sales, lines) ==
    IF lines = <<>> THEN item_sales
    ELSE SalesOfLines(AddSale(item_sales, Head(lines).name, Head(lines).quantity),
                      Tail(lines))

\* for o in filtered
RECURSIVE ItemSales(_, _)
ItemSales(item_sales, filtered) ==
    IF filtered = <<>> THEN item_sales
    ELSE ItemSales(SalesOfLines(item_sales, Head(filtered).items), Tail(filtered))

\* A slip: sorted ascending and reversed afterwards, which turns the items of
\* equal quantity round.
InsertByQtyTiesReversed(sorted, x) ==
    LET pos == Cardinality({k \in DOMAIN sorted : sorted[k].qty > x.qty})
    IN  SubSeq(sorted, 1, pos) \o <<x>> \o SubSeq(sorted, pos + 1, Len(sorted))

\* sorted(..., key=lambda x: x[1], reverse=True) is stable: an item goes behind
\* every item of a greater or equal quantity that came before it
InsertByQty(sorted, x) ==
    LET pos == Cardinality({k \in DOMAIN sorted : sorted[k].qty >= x.qty})
    IN  SubSeq(sorted, 1, pos) \o <<x>> \o SubSeq(sorted, pos + 1, Len(sorted))

RECURSIVE SortedByQty(_)
SortedByQty(items) ==
    IF items = <<>> THEN <<>>
    ELSE InsertByQty(SortedByQty(SubSeq(items, 1, Len(items) - 1)), items[Len(items)])

\* the page shows sorted(...)[:10]
TopCount == 10

\* Top Selling Items: sorted(item_sales.items(), ...)[:n]
TopItems(filtered, n) ==
    LET ranked == SortedByQty(ItemSales(<<>>, filtered))
    IN  SubSeq(ranked, 1, IF n < Len(ranked) THEN n ELSE Len(ranked))

\* the page is opened: nothing is written
SalesAnalyticsPage ==
    /\ last' = IF orders = <<>>
               THEN [op |-> "sales_analytics", shown |-> FALSE, total_revenue |-> 0,
                     total_orders |-> 0, top |-> <<>>]
               ELSE [op |-> "sales_analytics", shown |-> TRUE,
                     total_revenue |-> SeqSum([i \in DOMAIN orders |-> orders[i].total]),
                     total_orders |-> Len(orders), top |-> TopItems(orders, TopCount)]
    /\ UNCHANGED <<menu, orders, tables, settings, cart, issued, session>>

\* the Top Selling Items block with a cut after n entries instead of 10
TopItemsOf(n) ==
    /\ orders # <<>>
    /\ last' = [op |-> "top_items", n |-> n, result |-> TopItems(orders, n)]
    /\ UNCHANGED <<menu, orders, tables, settings, cart, issued, session>>

(***************************************************************************)
(* The session and main(): the login page, the navigation options of each  *)
(* role and the role checks of the dispatch.  The users document is        *)
(* written once by initialize_data_files and never edited.                 *)
(***************************************************************************)
Users ==
    << [username |-> "admin", password |-> "admin123", role |-> "admin"],
       [username |-> "staff", password |-> "staff123", role |-> "staff"] >>

\* st.session_state['user'] = None
None == [username |-> "", password |-> "", role |-> ""]

LoggedOut == [logged_in |-> FALSE, user |-> None]

\* authenticate: the first user with exactly this username and password
Authenticate(users, username, password) ==
    LET hits == {i \in DOMAIN users :
                    users[i].username = username /\ users[i].password = password}
    IN  IF hits = {} THEN None
        ELSE users[CHOOSE i \in hits : \A j \in hits : i <= j]

AdminOptions ==
    <<"Dashboard", "Menu Management", "Order Management", "Sales Analytics",
      "Table Management", "QR Code Generator", "Settings", "Logout">>

StaffOptions ==
    <<"Dashboard", "Order Management", "Table Management", "QR Code Generator", "Logout">>

MenuOptions(role) ==
    IF role = "admin" THEN AdminOptions
    ELSE IF role = "staff" THEN StaffOptions
    ELSE <<"Logout">>

AdminPages == {"Menu Management", "Sales Analytics", "Settings"}

\* A slip: the navigation and the dispatch without the role checks.
CanOpenAnyRole(choice) ==
    /\ session.logged_in
    /\ \E k \in DOMAIN AdminOptions : AdminOptions[k] = choice

\* main() runs the page `choice`: the session is logged in, the page is among the
\* role's navigation options and, for the admin pages, the role is admin
CanOpen(choice) ==
    /\ session.logged_in
    /\ \E k \in DOMAIN MenuOptions(session.user.role) :
           MenuOptions(session.user.role)[k] = choice
    /\ choice \in AdminPages => session.user.role = "admin"

\* login_page, "Login"
Login(username, password) ==
    /\ ~session.logged_in
    /\ LET user == Authenticate(Users, username, password)
       IN  IF user # None
           THEN /\ session' = [logged_in |-> TRUE, user |-> user]
                /\ last' = [op |-> "login", ok |-> TRUE]
           ELSE /\ UNCHANGED session
                /\ last' = [op |-> "login", ok |-> FALSE]
    /\ UNCHANGED <<menu, orders, tables, settings, cart, issued>>

\* choice == "Logout"
Logout ==
    /\ CanOpen("Logout")
    /\ session' = [logged_in |-> FALSE, user |-> None]
    /\ cart' = <<>>
    /\ last' = [op |-> "logout", role |-> session.user.role, dropped |-> Len(cart)]
    /\ UNCHANGED <<menu, orders, tables, settings, issued>>

(***************************************************************************)
(* dashboard_page, qr_generator_page and settings_page.  The rates of the  *)
(* settings form are percentages in steps of 0.1, that is, per mille.  The *)
(* "Clear All Data" block of the settings page sits behind a button inside *)
(* a checkbox inside a button, which no single script run passes.          *)
(***************************************************************************)
DashboardPage ==
    /\ last' = [op |-> "dashboard",
                total_items |-> Len(menu["beverages"]) + Len(menu["food"]),
                total_orders |-> Len(orders)]
    /\ UNCHANGED <<menu, orders, tables, settings, cart, issued, session>>

\* "Generate QR Code": the URL is saved in the settings once the image is made
QrGenerate(cafe_url, generated) ==
    /\ IF generated
       THEN settings' = [settings EXCEPT !.barcode_url = cafe_url]
       ELSE UNCHANGED settings
    /\ last' = [op |-> "qr_generate", ok |-> generated]
    /\ UNCHANGED <<menu, orders, tables, cart, issued, session>>

\* "Save Settings"
SaveSettings(cafe_name, barcode_url, tax_rate, service_charge) ==
    /\ settings' = [cafe_name |-> cafe_name, barcode_url |-> barcode_url,
                    tax_rate |-> tax_rate, service_charge |-> service_charge]
    /\ last' = [op |-> "save_settings"]
    /\ UNCHANGED <<menu, orders, tables, cart, issued, session>>

(***************************************************************************)
(* The initial state: the documents initialize_data_files writes, an empty *)
(* cart, nobody logged in, nothing added yet.                              *)
(***************************************************************************)
DefaultSettings ==
    [cafe_name |-> "My Cafe", barcode_url |-> "https://mycafe.com/menu",
     tax_rate |-> 100, service_charge |-> 50]

Init ==
    /\ menu = DefaultMenu
    /\ orders = <<>>
    /\ tables = DefaultTables
    /\ settings = DefaultSettings
    /\ cart = <<>>
    /\ session = LoggedOut
    /\ issued = [t \in ItemTypes |-> <<>>]
    /\ last = [op |-> "start"]

\* The documents at the start, with the admin logged in: the state the pages
\* of an admin session start from.
AdminSession == [logged_in |-> TRUE, user |-> Users[1]]

InitAdmin ==
    /\ menu = DefaultMenu
    /\ orders = <<>>
    /\ tables = DefaultTables
    /\ settings = DefaultSettings
    /\ cart = <<>>
    /\ session = AdminSession
    /\ issued = [t \in ItemTypes |-> <<>>]
    /\ last = [op |-> "start"]

\* The states an admin session reaches by placing up to MaxOrders orders of one
\* unit of the first beverage, each for a table or as take-away.
SampleLine == MkLine(DefaultMenu["beverages"][1], 1)

RECURSIVE Placed(_)
Placed(table_numbers) ==
    IF table_numbers = <<>> THEN [menu |-> DefaultMenu, orders |-> <<>>]
    ELSE LET n == Len(table_numbers)
             p == Placed(SubSeq(table_numbers, 1, n - 1))
         IN  [menu |-> DecrementAll(p.menu, <<SampleLine>>),
              orders |-> Append(p.orders,
                  MkOrder(Len(p.orders) + 1, "Ann", table_numbers[n], <<SampleLine>>, 0,
                          DefaultSettings.tax_rate, DefaultSettings.service_charge,
                          "Unpaid"))]

InitPlaced ==
    /\ \E table_numbers \in SeqsUpTo(OrderTableNumbers, MaxOrders) :
           /\ menu = Placed(table_numbers).menu
           /\ orders = Placed(table_numbers).orders
    /\ tables = DefaultTables
    /\ settings = DefaultSettings
    /\ cart = <<>>
    /\ session = AdminSession
    /\ issued = [t \in ItemTypes |-> <<>>]
    /\ last = [op |-> "start"]

\* Order lists for the reports: up to MaxReportOrders orders of one or two lines,
\* each line one of three items in quantity 1 or 2.
ReportItems ==
    << [id |-> FormatId("BEV", 1), name |-> "Latte", price |-> 300],
       [id |-> FormatId("FOOD", 1), name |-> "Croissant", price |-> 250],
       [id |-> FormatId("BEV", 2), name |-> "Cappuccino", price |-> 350] >>

ReportQuantities == {1, 2}

ReportLines == {MkLine(ReportItems[k], q) : k \in DOMAIN ReportItems, q \in ReportQuantities}

ReportCarts == {<<l>> : l \in ReportLines} \cup {<<l, m>> : l \in ReportLines, m \in ReportLines}

OrdersOf(carts) ==
    [i \in DOMAIN carts |->
        MkOrder(i, "Ann", <<>>, carts[i], 0, DefaultSettings.tax_rate,
                DefaultSettings.service_charge, "Unpaid")]

InitReports ==
    /\ menu = DefaultMenu
    /\ \E carts \in SeqsUpTo(ReportCarts, MaxReportOrders) : orders = OrdersOf(carts)
    /\ tables = DefaultTables
    /\ settings = DefaultSettings
    /\ cart = <<>>
    /\ session = AdminSession
    /\ issued = [t \in ItemTypes |-> <<>>]
    /\ last = [op |-> "start"]

(***************************************************************************)
(* The steps a user can take: main() dispatches to the page when the       *)
(* session may open it, and a form is handled with the values it is given. *)
(***************************************************************************)
ItemIds(t) == {FormatId(Prefix(t), n) : n \in 1..MaxIdNum}

\* the edit form, prefilled with the item's values
ItemEdits(itm) ==
    [name : {itm.name, "Mocha"}, price : {itm.price}, category : {itm.category},
     description : {itm.description}, inventory : {itm.inventory}, available : BOOLEAN]

\* the edit form with only the inventory changed
InventoryEdits(itm) ==
    [name : {itm.name}, price : {itm.price}, category : {itm.category},
     description : {itm.description}, inventory : Inventories, available : {itm.available}]

TableInputChars == {" ", "1"}

TableNumberInputs == SeqsUpTo(TableInputChars, MaxInputLen)

StatusFilters == {"All"} \cup Range(OrderStatuses)

AddItemStep ==
    /\ CanOpen("Menu Management")
    /\ \E t \in ItemTypes, name \in Names, price \in Prices, category \in Categories,
          inventory \in Inventories, available \in BOOLEAN :
           AddItem(t, name, price, category, "", inventory, available)

UpdateItemStep ==
    /\ CanOpen("Menu Management")
    /\ \E t \in ItemTypes : \E i \in DOMAIN menu[t] : \E f \in ItemEdits(menu[t][i]) :
           UpdateItem(t, menu[t][i].id, f)

RestockStep ==
    /\ CanOpen("Menu Management")
    /\ \E t \in ItemTypes : \E i \in DOMAIN menu[t] : \E f \in InventoryEdits(menu[t][i]) :
           UpdateItem(t, menu[t][i].id, f)

DeleteItemStep ==
    /\ CanOpen("Menu Management")
    /\ \E t \in ItemTypes : \E id \in ItemIds(t) : DeleteItem(t, id)

TablePageLoadStep == CanOpen("Table Management") /\ TablePageLoad

SetTableStatusStep ==
    /\ CanOpen("Table Management")
    /\ \E idx \in DOMAIN tables : \E new_status \in Range(TableStatuses) :
           SetTableStatus(idx, new_status)

DeleteTableStep ==
    /\ CanOpen("Table Management")
    /\ \E idx \in DOMAIN tables : DeleteTable(idx)

AddTableStep ==
    /\ CanOpen("Table Management")
    /\ \E number \in TableNumberInputs : AddTable(number)

CartAddStep ==
    /\ CanOpen("Order Management")
    /\ \E t \in ItemTypes : \E idx \in DOMAIN menu[t] : \E quantity \in Quantities :
           CartAdd(t, idx, quantity)

CartRemoveStep ==
    /\ CanOpen("Order Management")
    /\ \E index \in DOMAIN cart : CartRemove(index)

\* the order form, for a take-away order
PlaceOrderStep ==
    /\ CanOpen("Order Management")
    /\ \E customer_name \in CustomerNames, discount \in Discounts,
          payment_status \in PaymentStatuses :
           PlaceOrder(customer_name, <<>>, discount, payment_status)

UpdateStatusFilteredStep ==
    /\ CanOpen("Order Management")
    /\ \E status_filter \in StatusFilters, idx \in 1..MaxOrders,
          new_status \in Range(OrderStatuses) :
           UpdateStatusFiltered(status_filter, idx, new_status)

UpdateStatusHistoryStep ==
    /\ CanOpen("Order Management")
    /\ \E status_filter \in StatusFilters, idx \in 1..MaxOrders,
          new_status \in Range(OrderStatuses) :
           UpdateStatusHistory(status_filter, idx, new_status)

\* one unit of the first beverage is put in the cart
QuickCartAddStep == CanOpen("Order Management") /\ CartAdd("beverages", 1, 1)

\* an order without discount is placed for a table or as take-away
QuickPlaceOrderStep ==
    /\ CanOpen("Order Management")
    /\ \E table_number \in OrderTableNumbers : PlaceOrder("Ann", table_number, 0, "Unpaid")

Usernames == {"admin", "staff", "Admin"}

Passwords == {"admin123", "staff123"}

LoginStep == \E username \in Usernames, password \in Passwords : Login(username, password)

LogoutStep == Logout

DashboardStep == CanOpen("Dashboard") /\ DashboardPage

MenuUrls == {"https://mycafe.com/menu", "https://mycafe.com/m"}

QrGenerateStep ==
    /\ CanOpen("QR Code Generator")
    /\ \E cafe_url \in MenuUrls, generated \in BOOLEAN : QrGenerate(cafe_url, generated)

\* tax rates 10 % and 12.5 %
TaxRateInputs == {100, 125}

SaveSettingsStep ==
    /\ CanOpen("Settings")
    /\ \E barcode_url \in MenuUrls, tax_rate \in TaxRateInputs :
           SaveSettings(settings.cafe_name, barcode_url, tax_rate, settings.service_charge)

SalesAnalyticsStep == CanOpen("Sales Analytics") /\ SalesAnalyticsPage

TopCounts == {1, 2, TopCount}

TopItemsStep == CanOpen("Sales Analytics") /\ \E n \in TopCounts : TopItemsOf(n)

\* Menu Management
MenuNext == AddItemStep \/ UpdateItemStep \/ DeleteItemStep

SpecMenu == InitAdmin /\ [][MenuNext]_vars

\* Order Management, with the menu's inventories edited in between
OrdersNext == CartAddStep \/ CartRemoveStep \/ PlaceOrderStep \/ RestockStep

SpecOrders == InitAdmin /\ [][OrdersNext]_vars

\* Order Management: orders are placed and their statuses updated
StatusNext ==
    \/ QuickCartAddStep
    \/ QuickPlaceOrderStep
    \/ UpdateStatusFilteredStep
    \/ UpdateStatusHistoryStep

SpecStatus == InitAdmin /\ [][StatusNext]_vars

\* Table Management, with orders placed and updated in between
TablesNext ==
    \/ TablePageLoadStep
    \/ SetTableStatusStep
    \/ DeleteTableStep
    \/ AddTableStep
    \/ UpdateStatusHistoryStep

SpecTables == InitPlaced /\ [][TablesNext]_vars

\* Table Management and Sales Analytics, with the orders updated in between
TablesReportsNext == TablesNext \/ SalesAnalyticsStep

SpecTablesReports == InitPlaced /\ [][TablesReportsNext]_vars

\* Sales Analytics over any order list
ReportsNext == SalesAnalyticsStep \/ TopItemsStep

SpecReports == InitReports /\ [][ReportsNext]_vars

\* main(): sessions of both users, with a handler of every page
MainNext ==
    \/ LoginStep
    \/ LogoutStep
    \/ DashboardStep
    \/ RestockStep
    \/ QuickCartAddStep
    \/ QuickPlaceOrderStep
    \/ SalesAnalyticsStep
    \/ TablePageLoadStep
    \/ QrGenerateStep
    \/ SaveSettingsStep

SpecMain == Init /\ [][MainNext]_vars

Next == MenuNext \/ OrdersNext \/ StatusNext \/ TablesNext \/ ReportsNext \/ MainNext

Spec == Init /\ [][Next]_vars

(***************************************************************************)
(* Properties of the Table Registry                                        *)
(***************************************************************************)
TablePageOps == {"reconcile", "set_status", "add_table", "delete_table"}

\* an order with this table number is Pending, Preparing or Ready
HasActiveOrder(number) ==
    \E j \in DOMAIN orders :
        /\ orders[j].table_number = number
        /\ orders[j].status \in {"Pending", "Preparing", "Ready"}

\* C3: reconcile is idempotent: when the sync step runs twice in succession with
\* the orders unchanged, the second run leaves every table as the first left it.
C3_ReconcileIdempotent ==
    [][(/\ last.op = "reconcile"
        /\ last'.op = "reconcile"
        /\ orders' = orders) => tables' = tables]_vars

C3_Witness ==
    /\ last.op = "reconcile"
    /\ last.runs = 2
    /\ \E i \in DOMAIN tables : tables[i].status = "Occupied"
    /\ \E i \in DOMAIN tables : tables[i].status = "Reserved"

\* C4: a Reserved table stays Reserved through a reconcile run when no order
\* with its table number is Pending, Preparing or Ready; with such an order the
\* run makes it Occupied, and nothing else.  The same holds for the sync that
\* follows the manual change to Reserved itself.
C4_ReservedSticky ==
    [][/\ last'.op = "reconcile" =>
            \A i \in DOMAIN tables :
                tables[i].status = "Reserved" =>
                    /\ i \in DOMAIN tables'
                    /\ tables'[i].table_number = tables[i].table_number
                    /\ tables'[i].status =
                         IF HasActiveOrder(tables[i].table_number)
                         THEN "Occupied" ELSE "Reserved"
       /\ (last'.op = "set_status" /\ last'.status = "Reserved") =>
            tables'[last'.idx].status =
                IF HasActiveOrder(tables[last'.idx].table_number)
                THEN "Occupied" ELSE "Reserved"]_vars

C4_Witness ==
    /\ last.op = "reconcile"
    /\ last.runs = 2
    /\ \E i \in DOMAIN tables :
        /\ tables[i].status = "Reserved"
        /\ ~HasActiveOrder(tables[i].table_number)
        /\ \E j \in DOMAIN orders : orders[j].table_number = tables[i].table_number

\* C5: after every run of the sync step a table is Occupied exactly when an
\* order with its table number is Pending, Preparing or Ready; a table without
\* such an order that was not Reserved is Available afterwards, also when
\* Occupied had been set by hand.
C5_OccupiedIffActive ==
    [][/\ last'.op \in TablePageOps =>
            \A i \in DOMAIN tables' :
                tables'[i].status = "Occupied" <=>
                    \E j \in DOMAIN orders' :
                        /\ orders'[j].table_number = tables'[i].table_number
                        /\ orders'[j].status \in {"Pending", "Preparing", "Ready"}
       /\ last'.op = "reconcile" =>
            \A i \in DOMAIN tables :
                (~HasActiveOrder(tables[i].table_number) /\ tables[i].status # "Reserved")
                    => tables'[i].status = "Available"
       /\ (last'.op = "set_status" /\ last'.status = "Occupied"
              /\ ~HasActiveOrder(tables[last'.idx].table_number))
            => tables'[last'.idx].status = "Available"]_vars

\* an order of the table is Ready and the table Occupied after a sync, while
\* another sync found a table's orders all Completed or Cancelled
C5_Witness ==
    /\ last.op = "reconcile"
    /\ \E i \in DOMAIN tables :
        /\ tables[i].status = "Occupied"
        /\ \E j \in DOMAIN orders :
            orders[j].table_number = tables[i].table_number /\ orders[j].status = "Ready"
        /\ \A j \in DOMAIN orders :
            orders[j].table_number = tables[i].table_number
                => orders[j].status \in {"Ready", "Completed", "Cancelled"}

\* C9: every stored table number is non-empty and no two tables have the same
\* table number.
C9_TableNumbersUnique ==
    /\ \A i \in DOMAIN tables : tables[i].table_number # <<>>
    /\ \A i, j \in DOMAIN tables :
        tables[i].table_number = tables[j].table_number => i = j

(***************************************************************************)
(* Properties of the Order Engine                                          *)
(***************************************************************************)
\* a cart line asks for more than the catalog holds of its item
CartHasShortLine ==
    \E i \in DOMAIN cart : \E t \in ItemTypes : \E k \in DOMAIN menu[t] :
        menu[t][k].id = cart[i].id /\ cart[i].quantity > menu[t][k].inventory

\* C1: place_order is atomic: with a cart in which a line's quantity exceeds the
\* item's inventory, place_order does not succeed, no inventory (no menu item)
\* changes, no order is appended and the cart is kept; with a customer name and a
\* discount that pass the validation of step 1 the error is
\* InsufficientInventoryError.
C1_PlaceOrderAtomic ==
    [][(last'.op = "place_order" /\ CartHasShortLine) =>
          /\ ~last'.ok
          /\ menu' = menu
          /\ orders' = orders
          /\ cart' = cart
          /\ (/\ last'.customer_name # ""
              /\ last'.discount >= 0
              /\ last'.discount <= SeqSum([i \in DOMAIN cart |-> cart[i].price * cart[i].quantity]))
                => last'.error = "InsufficientInventoryError"]_vars

\* the order was refused for its second line while the first line had enough stock
C1_Witness ==
    /\ last.op = "place_order"
    /\ last.error = "InsufficientInventoryError"
    /\ Len(cart) = 2
    /\ cart[1].id # cart[2].id
    /\ cart[1].quantity <= InventoryOf(menu, cart[1].id)
    /\ cart[2].quantity > InventoryOf(menu, cart[2].id)

LineTotal(o) == SeqSum([i \in DOMAIN o.items |-> o.items[i].price * o.items[i].quantity])

\* x is num / 1000 rounded to the nearest unit
IsRounded(x, num) == 2 * (1000 * x - num) <= 1000 /\ 2 * (num - 1000 * x) <= 1000

\* the amounts of an order follow from its lines, its discount and the rates
AmountsConsistent(o) ==
    /\ o.subtotal = LineTotal(o)
    /\ 0 <= o.discount /\ o.discount <= o.subtotal
    /\ IsRounded(o.tax, settings.tax_rate * (o.subtotal - o.discount))
    /\ IsRounded(o.service_charge, settings.service_charge * (o.subtotal - o.discount))
    /\ o.total = o.subtotal - o.discount + o.tax + o.service_charge

\* the lines 3.50 x 2 and 9.00 x 1, discount 1.00, tax rate 0.10, service rate 0.05
IsExampleOrder(o) ==
    /\ Len(o.items) = 2
    /\ o.items[1].price = 350 /\ o.items[1].quantity = 2
    /\ o.items[2].price = 900 /\ o.items[2].quantity = 1
    /\ o.discount = 100
    /\ settings.tax_rate = 100 /\ settings.service_charge = 50

\* C8 as stated: for every order, in hundredths, total = subtotal - discount + tax
\* + service_charge and tax = tax_rate * (subtotal - discount) rounded to the
\* hundredth, the subtotal being the sum of price times quantity and
\* 0 <= discount <= subtotal; the example order has subtotal 16.00, tax 1.50,
\* service 0.75 and total 16.25.
C8_OrderAmountsAsStated ==
    \A j \in DOMAIN orders :
        /\ AmountsConsistent(orders[j])
        /\ IsExampleOrder(orders[j]) =>
            /\ orders[j].subtotal = 1600 /\ orders[j].tax = 150
            /\ orders[j].service_charge = 75 /\ orders[j].total = 1625

\* C8 as amended: the same, with the example's total 17.25
\* (16.00 - 1.00 + 1.50 + 0.75).
C8_OrderAmounts ==
    \A j \in DOMAIN orders :
        /\ AmountsConsistent(orders[j])
        /\ IsExampleOrder(orders[j]) =>
            /\ orders[j].subtotal = 1600 /\ orders[j].tax = 150
            /\ orders[j].service_charge = 75 /\ orders[j].total = 1725

C8_Witness ==
    /\ last.op = "place_order"
    /\ last.ok
    /\ \E j \in DOMAIN orders : IsExampleOrder(orders[j]) /\ orders[j].total = 1725

\* C6: no step removes an order from the orders document: every order is still
\* there afterwards with all its fields but the status unchanged, and a step
\* changes the status of at most one order.
C6_OrdersNeverRemoved ==
    [][/\ \A i \in DOMAIN orders : \E j \in DOMAIN orders' :
            [orders'[j] EXCEPT !.status = orders[i].status] = orders[i]
       /\ Len(orders') = Len(orders) =>
            Cardinality({i \in DOMAIN orders : orders'[i] # orders[i]}) <= 1]_vars

\* C7: update_status sets the status unconditionally: after it, the (first)
\* persisted order with the given id carries the requested status, whatever its
\* status was; and in every state the Order History accepts every one of the five
\* statuses for every order it lists.
C7_UpdateStatusUnconditional ==
    /\ last.op = "update_status" =>
        \E i \in DOMAIN orders :
            /\ orders[i].id = last.id
            /\ orders[i].status = last.status
            /\ \A j \in 1..(i - 1) : orders[j].id # last.id
    /\ \A idx \in DOMAIN orders : \A new_status \in Range(OrderStatuses) :
        idx = LastIndex(orders, orders[idx].id) =>
            ENABLED (/\ UpdateStatusHistory("All", idx, new_status)
                     /\ \E i \in DOMAIN orders' :
                            /\ orders'[i].id = orders[idx].id
                            /\ orders'[i].status = new_status)

\* a Completed order was set back to Pending
C7_Witness ==
    /\ last.op = "update_status"
    /\ last.was = "Completed"
    /\ last.status = "Pending"
    /\ \E i \in DOMAIN orders : orders[i].id = last.id /\ orders[i].status = "Pending"

(***************************************************************************)
(* Properties of the Catalog                                               *)
(***************************************************************************)
\* C2: the sequence numbers add_item returned for a type are strictly
\* increasing, so no id is returned twice.
C2_IdsStrictlyIncreasing ==
    \A t \in ItemTypes : \A i, j \in DOMAIN issued[t] :
        i < j => issued[t][i] < issued[t][j]

SoldNames(os) == UNION {{os[i].items[j].name : j \in DOMAIN os[i].items} : i \in DOMAIN os}

\* the quantity of the item summed over all lines of all orders
TotalSold(os, name) ==
    SeqSum([i \in DOMAIN os |->
        SeqSum([j \in DOMAIN os[i].items |->
            IF os[i].items[j].name = name THEN os[i].items[j].quantity ELSE 0])])

\* a is met in the order list before b is
SeenBefore(os, a, b) ==
    \E i \in DOMAIN os : \E j \in DOMAIN os[i].items :
        /\ os[i].items[j].name = a
        /\ \A i2 \in DOMAIN os : \A j2 \in DOMAIN os[i2].items :
              os[i2].items[j2].name = b => (i < i2 \/ (i = i2 /\ j < j2))

Outranks(os, a, b) ==
    \/ TotalSold(os, a) > TotalSold(os, b)
    \/ TotalSold(os, a) = TotalSold(os, b) /\ SeenBefore(os, a, b)

IsTopItems(os, n, r) ==
    /\ Len(r) = IF n < Cardinality(SoldNames(os)) THEN n ELSE Cardinality(SoldNames(os))
    /\ \A k \in DOMAIN r :
        /\ r[k].name \in SoldNames(os)
        /\ r[k].qty = TotalSold(os, r[k].name)
    /\ \A k, l \in DOMAIN r : k < l => Outranks(os, r[k].name, r[l].name)
    /\ \A name \in SoldNames(os) \ {r[k].name : k \in DOMAIN r} :
        \A k \in DOMAIN r : Outranks(os, r[k].name, name)

\* the orders {Latte x 2, Croissant x 1} and {Latte x 1}
IsTopItemsExample(os) ==
    /\ Len(os) = 2
    /\ Len(os[1].items) = 2 /\ Len(os[2].items) = 1
    /\ os[1].items[1].name = "Latte" /\ os[1].items[1].quantity = 2
    /\ os[1].items[2].name = "Croissant" /\ os[1].items[2].quantity = 1
    /\ os[2].items[1].name = "Latte" /\ os[2].items[1].quantity = 1

\* C11: top_items(orders, n) returns the (name, total quantity) pairs summed over
\* all order lines, by quantity descending, names of equal quantity in the order in
\* which they are first met in the order list, cut after the first n entries, and
\* leaves the order list as it is; for the orders {Latte x 2, Croissant x 1} and
\* {Latte x 1} it returns (Latte, 3), (Croissant, 1).
C11_TopItems ==
    [][last'.op = "top_items" =>
          /\ orders' = orders
          /\ IsTopItems(orders, last'.n, last'.result)
          /\ (IsTopItemsExample(orders) /\ last'.n >= 2) =>
                last'.result = << [name |-> "Latte", qty |-> 3],
                                  [name |-> "Croissant", qty |-> 1] >>]_vars

\* three items were sold, the two shown have the same total, the first of them
\* was sold again after the second was first met, and the third is cut off
C11_Witness ==
    /\ last.op = "top_items"
    /\ last.n = 2
    /\ Cardinality(SoldNames(orders)) = 3
    /\ Len(last.result) = 2
    /\ last.result[1].qty = last.result[2].qty
    /\ Len(orders) = 2
    /\ \E j \in DOMAIN orders[2].items : orders[2].items[j].name = last.result[1].name
    /\ \E j \in DOMAIN orders[1].items : orders[1].items[j].name = last.result[2].name

\* C12: in every reachable state, after any sequence of add_item, update_item,
\* delete_item and place_order, every menu item's inventory is an integer
\* greater than or equal to 0.
C12_InventoryNonNegative ==
    \A t \in ItemTypes : \A i \in DOMAIN menu[t] :
        menu[t][i].inventory \in Int /\ menu[t][i].inventory >= 0

\* C13: an order's status is changed only by an update_status action: the table
\* sync, a manual table status change, add_table, delete_table and the sales
\* reports leave the orders document, every field of every order, as it is, also
\* the orders that name a deleted table or one set to Available.
C13_OrdersChangedOnlyByUpdateStatus ==
    [][/\ last'.op \in TablePageOps \cup {"sales_analytics"} => orders' = orders
       /\ orders' # orders => last'.op = "update_status"]_vars

\* a table was deleted while an order naming it is Pending, Preparing or Ready;
\* the order is still there and names a table that no longer exists
C13_Witness ==
    /\ last.op = "delete_table"
    /\ ~TableExists(tables, last.number)
    /\ HasActiveOrder(last.number)

(***************************************************************************)
(* Properties of main()                                                    *)
(***************************************************************************)
\* the handlers of Menu Management, Sales Analytics and Settings
AdminOps ==
    {"add_item", "update_item", "delete_item", "sales_analytics", "top_items", "save_settings"}

\* C14: while nobody is logged in only the login page runs and no document is
\* modified; a handler of Menu Management, Sales Analytics or Settings runs only
\* in the session of an admin, so that in any other session none of them modifies
\* the menu, and the tax and service rates stay as they are; Logout leaves the
\* session with logged_in false, user None and an empty cart.
C14_AccessGating ==
    [][/\ ~session.logged_in =>
            /\ last'.op = "login"
            /\ menu' = menu /\ orders' = orders /\ tables' = tables
            /\ settings' = settings
       /\ last'.op \in AdminOps =>
            (session.logged_in /\ session.user.role = "admin")
       /\ (session.logged_in /\ session.user.role # "admin") =>
            /\ settings'.tax_rate = settings.tax_rate
            /\ settings'.service_charge = settings.service_charge
       /\ last'.op = "logout" =>
            /\ session' = [logged_in |-> FALSE, user |-> None]
            /\ cart' = <<>>]_vars

\* the staff user logged out with a line in the cart, after the admin had
\* changed the tax rate and an order had been placed
C14_Witness ==
    /\ last.op = "logout"
    /\ last.role = "staff"
    /\ last.dropped > 0
    /\ ~session.logged_in
    /\ cart = <<>>
    /\ settings.tax_rate # DefaultSettings.tax_rate
    /\ orders # <<>>

====
